---------------------------- MODULE Spec2Model ----------------------------
(***************************************************************************)
(* A model of build.js, the static site generator of                       *)
(* white_silence_black_ink.                                                *)
(*                                                                         *)
(* Representation.                                                         *)
(*  - A text (a template, a rendered page, a JSON string value) is a       *)
(*    sequence of lexemes.  A lexeme is a TLA+ string: one character, or   *)
(*    one run of characters that the inputs of this model never split      *)
(*    (a placeholder token, a fixed piece of markup of the source).        *)
(*    String.prototype.replace is modelled on lexemes: the pattern is one  *)
(*    lexeme, the replacement text is scanned lexeme by lexeme for the     *)
(*    "$" patterns of ECMAScript's GetSubstitution.                        *)
(*  - A JSON file is absent, malformed, or holds a JSON value; JSON.parse  *)
(*    is modelled by its outcome (a thrown SyntaxError or the value).      *)
(*  - A JSON value is a record tagged by t: null, number (kept by its      *)
(*    decimal text), string (a text), array, object (its properties in     *)
(*    insertion order, a sequence of <<key, value>>).                      *)
(*  - A directory tree is a record tagged "dir" with a function from       *)
(*    entry names to nodes; a file is a record tagged "file".              *)
(***************************************************************************)
EXTENDS Integers, Sequences, FiniteSets, TLC

VARIABLES
    templates,   \* templates/<name>: Absent or a File
    content,     \* content/<name>.json: Absent, Malformed or Holds(value)
    postsDir,    \* content/posts: Absent or the directory listing, in readdir order
    assets,      \* assets/: Absent or a directory tree
    cname,       \* CNAME: Absent or a File
    dist,        \* dist/: Absent or a directory tree
    pc,          \* the statement of build() the process is at
    originHTML,  \* build()'s local originHTML (line 110)
    posts,       \* injectData()'s local posts (line 69), as last computed
    exitCode,    \* "none" while the process runs, then its exit code
    builds,      \* the number of times the script has been started
    startDist,   \* dist/ as this run of the script found it
    prevDone,    \* whether the previous run of the script completed
    prevOut      \* dist/ as the previous run of the script left it

vars == <<templates, content, postsDir, assets, cname, dist, pc, originHTML,
          posts, exitCode, builds, startDist, prevDone, prevOut>>

inputs == <<templates, content, postsDir, assets, cname>>

\* what the model records about the runs of the script
history == <<builds, startDist, prevDone, prevOut>>

-----------------------------------------------------------------------------
(* Values *)

Absent == [t |-> "absent"]
Malformed == [t |-> "malformed"]
Holds(v) == [t |-> "json", v |-> v]
File(text) == [t |-> "file", data |-> text]
NoEntries == [n \in {} |-> n]
Dir(ents) == [t |-> "dir", ents |-> ents]
EmptyDir == Dir(NoEntries)

Exists(node) == node.t # "absent"

Throw == [t |-> "throw"]
Undefined == [t |-> "undefined"]
JNull == [t |-> "null"]
JStr(s) == [t |-> "str", v |-> s]
JNum(digits) == [t |-> "num", v |-> digits]
JArr(elems) == [t |-> "arr", v |-> elems]
JObj(props) == [t |-> "obj", v |-> props]

\* ToBoolean of a value of the model
Truthy(v) ==
    CASE v.t = "null" -> FALSE
      [] v.t = "undefined" -> FALSE
      [] v.t = "str" -> v.v # <<>>
      [] v.t = "num" -> v.v # <<"0">>
      [] OTHER -> TRUE

\* v[key] for a value that is neither null nor undefined: an object's own
\* property (the last one of that name), undefined on anything else
Get(v, key) ==
    IF v.t = "obj" /\ \E i \in 1..Len(v.v) : v.v[i][1] = key
    THEN LET i == CHOOSE k \in 1..Len(v.v) :
                      /\ v.v[k][1] = key
                      /\ \A m \in (k+1)..Len(v.v) : v.v[m][1] # key
         IN v.v[i][2]
    ELSE Undefined

\* ToString, as a template literal or replace() applies it
ToStr(v) ==
    CASE v.t = "str" -> v.v
      [] v.t = "num" -> v.v
      [] v.t = "undefined" -> <<"undefined">>
      [] v.t = "null" -> <<"null">>
      [] v.t = "obj" -> <<"[object Object]">>

\* the concatenation of a sequence of sequences, by halves
RECURSIVE Concat(_)
Concat(seqs) ==
    IF Len(seqs) = 0 THEN <<>>
    ELSE IF Len(seqs) = 1 THEN seqs[1]
    ELSE LET h == Len(seqs) \div 2 IN
         Concat(SubSeq(seqs, 1, h)) \o Concat(SubSeq(seqs, h + 1, Len(seqs)))

-----------------------------------------------------------------------------
(* String.prototype.replace(pattern, replacement) with a string pattern *)

\* 0 when tok does not occur in html, else the position of its first occurrence
IndexOf(html, tok) ==
    IF \E i \in 1..Len(html) : html[i] = tok
    THEN CHOOSE i \in 1..Len(html) :
             html[i] = tok /\ \A j \in 1..(i-1) : html[j] # tok
    ELSE 0

\* The grave accent (U+0060), which a TLA+ string cannot hold
GraveAccent == "U+0060"

\* GetSubstitution reads the replacement text from left to right: "$$" is
\* "$", "$&" the match, "$" and a grave accent the text before the match,
\* "$'" the text after it; any other "$" stands for itself.
DollarPatterns == {"$", "&", GraveAccent, "'"}

\* how many "$" stand in a row right before position i
DollarsBefore(repl, i) ==
    LET others == {j \in 1..(i - 1) : repl[j] # "$"} IN
    IF others = {} THEN i - 1
    ELSE i - 1 - (CHOOSE j \in others : \A k \in others : k <= j)

\* Position i is the second character of a pattern, read together with the
\* "$" before it: the "$" of a row pair off from the row's start, so the one
\* before i opens a pattern exactly when an odd number of them precede i.
Consumed(repl, i) ==
    repl[i] \in DollarPatterns /\ DollarsBefore(repl, i) % 2 = 1

OpensPattern(repl, i) ==
    /\ repl[i] = "$"
    /\ i < Len(repl)
    /\ repl[i + 1] \in DollarPatterns
    /\ ~Consumed(repl, i)

GetSubstitution(repl, matched, before, after) ==
    Concat([i \in 1..Len(repl) |->
        IF Consumed(repl, i) THEN <<>>
        ELSE IF OpensPattern(repl, i)
             THEN CASE repl[i + 1] = "$" -> <<"$">>
                    [] repl[i + 1] = "&" -> matched
                    [] repl[i + 1] = GraveAccent -> before
                    [] repl[i + 1] = "'" -> after
             ELSE <<repl[i]>>])

Replace(html, tok, repl) ==
    LET i == IndexOf(html, tok) IN
    IF i = 0 THEN html
    ELSE LET before == SubSeq(html, 1, i - 1)
             after == SubSeq(html, i + 1, Len(html))
         IN before \o GetSubstitution(repl, <<tok>>, before, after) \o after

-----------------------------------------------------------------------------
(* JSON.stringify(value, null, 2) *)

Gap == 2

Spaces(n) == [i \in 1..n |-> " "]

EscapeLexeme(c) ==
    CASE c = "\"" -> <<"\\", "\"">>
      [] c = "\\" -> <<"\\", "\\">>
      [] c = "\n" -> <<"\\", "n">>
      [] OTHER -> <<c>>

Quote(s) == <<"\"">> \o Concat([i \in 1..Len(s) |-> EscapeLexeme(s[i])]) \o <<"\"">>

\* parts joined by ",\n", each part on its own line
JoinLines(parts) ==
    Concat([i \in 1..Len(parts) |->
              IF i < Len(parts) THEN parts[i] \o <<",", "\n">> ELSE parts[i]])

RECURSIVE Stringify(_, _)
Stringify(v, ind) ==
    CASE v.t = "null" -> <<"null">>
      [] v.t = "num" -> v.v
      [] v.t = "str" -> Quote(v.v)
      [] v.t = "arr" ->
           IF v.v = <<>> THEN <<"[", "]">>
           ELSE <<"[", "\n">>
                \o JoinLines([i \in 1..Len(v.v) |->
                       Spaces(ind + Gap) \o Stringify(v.v[i], ind + Gap)])
                \o <<"\n">> \o Spaces(ind) \o <<"]">>
      [] v.t = "obj" ->
           IF v.v = <<>> THEN <<"{", "}">>
           ELSE <<"{", "\n">>
                \o JoinLines([i \in 1..Len(v.v) |->
                       Spaces(ind + Gap) \o Quote(<<v.v[i][1]>>) \o <<":", " ">>
                       \o Stringify(v.v[i][2], ind + Gap)])
                \o <<"\n">> \o Spaces(ind) \o <<"}">>

JSONstringify(v) == Stringify(v, 0)

-----------------------------------------------------------------------------
(* readJSON, lines 45-49 *)

readJSON(file, fallback) ==
    IF ~Exists(file) THEN fallback
    ELSE IF file.t = "malformed" THEN fallback   \* JSON.parse throws, caught
    ELSE file.v

-----------------------------------------------------------------------------
(* String.prototype.localeCompare, as readPosts' comparator uses it.        *)
(* The runtime compares by collation keys (ICU, root collation): first the  *)
(* primary weights of the two strings, and the tertiary (case) weights only *)
(* when the primary weights are all equal.  Punctuation sorts before        *)
(* digits, digits before letters, "a" and "A" share a primary weight and    *)
(* lower case sorts first.                                                  *)

PrimaryWeight(c) ==
    CASE c = "-" -> 1
      [] c = "0" -> 10 [] c = "1" -> 11 [] c = "2" -> 12
      [] c = "4" -> 14 [] c = "6" -> 16
      [] c \in {"a", "A"} -> 30
      [] c \in {"b", "B"} -> 31

TertiaryWeight(c) == IF c \in {"A", "B"} THEN 1 ELSE 0

\* -1, 0 or 1: the lexicographic order of two sequences of numbers
RECURSIVE CompareKeys(_, _)
CompareKeys(k1, k2) ==
    CASE k1 = <<>> /\ k2 = <<>> -> 0
      [] k1 = <<>> /\ k2 # <<>> -> -1
      [] k1 # <<>> /\ k2 = <<>> -> 1
      [] OTHER ->
           IF Head(k1) < Head(k2) THEN -1
           ELSE IF Head(k1) > Head(k2) THEN 1
           ELSE CompareKeys(Tail(k1), Tail(k2))

localeCompare(s, that) ==
    LET p == CompareKeys([i \in 1..Len(s) |-> PrimaryWeight(s[i])],
                         [i \in 1..Len(that) |-> PrimaryWeight(that[i])])
    IN IF p # 0 THEN p
       ELSE CompareKeys([i \in 1..Len(s) |-> TertiaryWeight(s[i])],
                        [i \in 1..Len(that) |-> TertiaryWeight(that[i])])

-----------------------------------------------------------------------------
(* readPosts, lines 53-66 *)

DotJson == <<".", "j", "s", "o", "n">>

endsWith(f, suffix) ==
    /\ Len(f) >= Len(suffix)
    /\ SubSeq(f, Len(f) - Len(suffix) + 1, Len(f)) = suffix

\* x || ''
OrEmpty(x) == IF Truthy(x) THEN x ELSE JStr(<<>>)

\* (b.date || '').localeCompare(a.date || '') raises a TypeError when a or b
\* is null (the property read) and when b.date is truthy and not a string
\* (it has no localeCompare method)
ComparatorThrows(a, b) ==
    \/ a.t = "null"
    \/ b.t = "null"
    \/ OrEmpty(Get(b, "date")).t # "str"

\* the comparator with its operands exchanged: ascending dates
ComparatorAscending(a, b) ==
    localeCompare(ToStr(OrEmpty(Get(a, "date"))), ToStr(OrEmpty(Get(b, "date"))))

\* the comparator's value when it returns; localeCompare converts its
\* argument to a string
Comparator(a, b) ==
    localeCompare(ToStr(OrEmpty(Get(b, "date"))), ToStr(OrEmpty(Get(a, "date"))))

\* x put into the sorted sequence s behind every element it does not precede
InsertSorted(s, x) ==
    LET later == {i \in 1..Len(s) : Comparator(s[i], x) > 0}
        k == IF later = {} THEN Len(s) + 1
             ELSE CHOOSE i \in later : \A j \in later : i <= j
    IN SubSeq(s, 1, k - 1) \o <<x>> \o SubSeq(s, k, Len(s))

\* Array.prototype.sort is stable
RECURSIVE StableSort(_)
StableSort(arr) ==
    IF arr = <<>> THEN <<>>
    ELSE InsertSorted(StableSort(SubSeq(arr, 1, Len(arr) - 1)), arr[Len(arr)])

\* The outcomes of posts.sort(comparator).  Which pairs the engine hands to
\* the comparator, and in which order, is implementation-defined; an array
\* of fewer than two elements is never compared, and every element of a
\* longer one is compared at least once.  The sort throws for certain when
\* every call on some element throws, and may throw when some call can.
SortOutcomes(arr) ==
    LET n == Len(arr)
        throws(i, j) == ComparatorThrows(arr[i], arr[j])
        must == \E i \in 1..n : \A j \in (1..n) \ {i} : throws(i, j) /\ throws(j, i)
        may == \E i, j \in 1..n : i # j /\ throws(i, j)
    IN IF n < 2 THEN {JArr(arr)}
       ELSE IF must THEN {Throw}
       ELSE IF may THEN {Throw, JArr(StableSort(arr))}
       ELSE {JArr(StableSort(arr))}

\* the files of the listing that end in .json and parse, in listing order
RECURSIVE ParsedPosts(_)
ParsedPosts(listing) ==
    IF listing = <<>> THEN <<>>
    ELSE LET f == Head(listing) IN
         IF endsWith(f.name, DotJson) /\ f.file.t = "json"
         THEN <<f.file.v>> \o ParsedPosts(Tail(listing))
         ELSE ParsedPosts(Tail(listing))   \* filtered out, or warned about

\* the set of results readPosts() can produce: Throw or an array
readPosts ==
    IF ~Exists(postsDir) THEN {JArr(<<>>)}
    ELSE SortOutcomes(ParsedPosts(postsDir.list))

-----------------------------------------------------------------------------
(* injectData, lines 68-81 *)

POSTS_JSON == "/*__POSTS_JSON__*/"
UNLINKED_JSON == "/*__UNLINKED_JSON__*/"
ABOUT_JSON == "/*__ABOUT_JSON__*/"
CONTACT_EMAIL == "/*__CONTACT_EMAIL__*/"

DefaultUnlinked == JArr(<<>>)
DefaultAbout == JObj(<< <<"en", JStr(<<>>)>>, <<"es", JStr(<<>>)>> >>)
DefaultSite == JObj(<<>>)

\* the four chained replace() calls of the return statement
InjectAll(html, postsText, unlinkedText, aboutText, email) ==
    Replace(Replace(Replace(Replace(html,
        POSTS_JSON, postsText),
        UNLINKED_JSON, unlinkedText),
        ABOUT_JSON, aboutText),
        CONTACT_EMAIL, email)

\* The outcomes of injectData(html), one for each outcome of readPosts():
\* posts is what readPosts() gave (Throw when it threw), html the text
\* returned (Throw when readPosts() threw or site.contact_email was read
\* from null).
injectData(html) ==
    LET unlinked == readJSON(content["unlinked-comments.json"], DefaultUnlinked)
        about == readJSON(content["about.json"], DefaultAbout)
        site == readJSON(content["site.json"], DefaultSite)
    IN { [posts |-> r,
          html |-> IF r = Throw \/ site.t = "null" THEN Throw
                   ELSE JStr(InjectAll(html,
                                 JSONstringify(r),
                                 JSONstringify(unlinked),
                                 JSONstringify(about),
                                 ToStr(OrEmpty(Get(site, "contact_email")))))]
         : r \in readPosts }

-----------------------------------------------------------------------------
(* buildOriginHTML and injectOrigin, lines 83-100 *)

ORIGIN_HTML == "<!-- __ORIGIN_HTML__ -->"

OriginFragment(en, es) ==
    <<"            <div class=\"column english\">", "\n",
      "                <div class=\"lang-label\">English</div>", "\n",
      "                ">> \o en \o <<"\n",
      "            </div>", "\n",
      "\n",
      "            <div class=\"column spanish\">", "\n",
      "                <div class=\"lang-label\">Español</div>", "\n",
      "                ">> \o es \o <<"\n",
      "            </div>">>

\* Throw (origin.body is undefined or null), null, or the fragment
buildOriginHTML ==
    LET origin == readJSON(content["origin.json"], JNull) IN
    IF ~Truthy(origin) THEN JNull
    ELSE LET body == Get(origin, "body") IN
         IF body.t \in {"undefined", "null"} THEN Throw
         ELSE JStr(OriginFragment(ToStr(Get(body, "en")), ToStr(Get(body, "es"))))

\* injectOrigin that blanks the placeholder when there is no origin
injectOriginBlank(html, fragment) ==
    Replace(html, ORIGIN_HTML, IF Truthy(fragment) THEN fragment.v ELSE <<>>)

injectOrigin(html, fragment) ==
    IF ~Truthy(fragment) THEN html
    ELSE Replace(html, ORIGIN_HTML, fragment.v)

-----------------------------------------------------------------------------
(* Filesystem utilities, lines 26-43 *)

\* cleanDir that only makes sure the directory exists
cleanDirKeep(d) == IF ~Exists(d) THEN EmptyDir ELSE d

cleanDir(d) ==
    LET removed == IF Exists(d) THEN Absent ELSE d    \* fs.rmSync
    IN IF Exists(removed) THEN removed ELSE EmptyDir  \* fs.mkdirSync

ensureDir(d) == IF ~Exists(d) THEN EmptyDir ELSE d

\* dir with name (over)written
WriteFile(dir, name, node) ==
    Dir([n \in DOMAIN dir.ents \cup {name} |->
            IF n = name THEN node ELSE dir.ents[n]])

\* copyDirSync that copies the files of src and skips its subdirectories
copyDirShallow(src, dest) ==
    IF ~Exists(src) THEN dest
    ELSE LET d == IF ~Exists(dest) THEN EmptyDir ELSE dest
             files == {n \in DOMAIN src.ents : src.ents[n].t = "file"}
         IN Dir([n \in DOMAIN d.ents \cup files |->
                   IF n \in files THEN src.ents[n] ELSE d.ents[n]])

\* dest after copyDirSync(src, dest)
RECURSIVE copyDirSync(_, _)
copyDirSync(src, dest) ==
    IF ~Exists(src) THEN dest
    ELSE LET d == ensureDir(dest) IN
         Dir([n \in DOMAIN d.ents \cup DOMAIN src.ents |->
                IF n \notin DOMAIN src.ents THEN d.ents[n]
                ELSE IF src.ents[n].t = "dir"
                     THEN copyDirSync(src.ents[n],
                              IF n \in DOMAIN d.ents THEN d.ents[n] ELSE Absent)
                     ELSE src.ents[n]])

-----------------------------------------------------------------------------
(* build, lines 104-166, one action for each statement that touches the     *)
(* filesystem or can end the process                                        *)

Steps == <<"cleanDir", "origin", "entry", "ripple.html", "clean.html",
           "blog", "assets", "cname", "complete", "done">>

\* build() with the two origin pages written in the other order
SuccessorSwapped(step) ==
    CASE step = "entry" -> "clean.html"
      [] step = "clean.html" -> "ripple.html"
      [] step = "ripple.html" -> "blog"
      [] OTHER -> LET i == CHOOSE k \in 1..Len(Steps) : Steps[k] = step
                  IN Steps[i + 1]

\* the statement that follows step in build()
Successor(step) ==
    LET i == CHOOSE k \in 1..Len(Steps) : Steps[k] = step IN Steps[i + 1]

Terminal == {"done", "exit1", "crash"}

\* an exception nobody catches ends the process with exit code 1
Crash ==
    /\ pc' = "crash"
    /\ exitCode' = "1"

\* line 107
CleanStep ==
    /\ pc = "cleanDir"
    /\ dist' = cleanDir(dist)
    /\ pc' = Successor(pc)
    /\ UNCHANGED <<inputs, originHTML, posts, exitCode, history>>

\* lines 110-115
OriginStep ==
    /\ pc = "origin"
    /\ LET r == buildOriginHTML IN
       IF r = Throw
       THEN Crash /\ UNCHANGED originHTML
       ELSE originHTML' = r /\ pc' = Successor(pc) /\ UNCHANGED exitCode
    /\ UNCHANGED <<inputs, dist, posts, history>>

\* the entry page treated like the other templates: a warning, no exit
EntryStepWarnOnly ==
    /\ pc = "entry"
    /\ IF Exists(templates["entry.html"])
       THEN dist' = WriteFile(dist, "index.html", templates["entry.html"])
       ELSE UNCHANGED dist
    /\ pc' = Successor(pc)
    /\ UNCHANGED <<inputs, originHTML, posts, exitCode, history>>

\* lines 118-125
EntryStep ==
    /\ pc = "entry"
    /\ IF Exists(templates["entry.html"])
       THEN /\ dist' = WriteFile(dist, "index.html", templates["entry.html"])
            /\ pc' = Successor(pc)
            /\ UNCHANGED exitCode
       ELSE /\ pc' = "exit1"           \* process.exit(1)
            /\ exitCode' = "1"
            /\ UNCHANGED dist
    /\ UNCHANGED <<inputs, originHTML, posts, history>>

\* line 128
OriginPages == {"ripple.html", "clean.html"}

\* lines 128-138, one iteration of the loop
OriginPage(page) ==
    /\ pc = page
    /\ IF Exists(templates[page])
       THEN dist' = WriteFile(dist, page,
                        File(injectOrigin(templates[page].data, originHTML)))
       ELSE UNCHANGED dist
    /\ pc' = Successor(pc)
    /\ UNCHANGED <<inputs, originHTML, posts, exitCode, history>>

\* lines 141-149
BlogStep ==
    /\ pc = "blog"
    /\ IF Exists(templates["blog.html"])
       THEN \E o \in injectData(templates["blog.html"].data) :
              /\ posts' = o.posts
              /\ IF o.html = Throw
                 THEN Crash /\ UNCHANGED dist
                 ELSE /\ dist' = WriteFile(dist, "blog.html", File(o.html.v))
                      /\ pc' = Successor(pc)
                      /\ UNCHANGED exitCode
       ELSE /\ pc' = Successor(pc)
            /\ UNCHANGED <<dist, posts, exitCode>>
    /\ UNCHANGED <<inputs, originHTML, history>>

\* lines 152-156
AssetsStep ==
    /\ pc = "assets"
    /\ IF Exists(assets)
       THEN dist' = WriteFile(dist, "assets",
                        copyDirSync(assets,
                            IF "assets" \in DOMAIN dist.ents
                            THEN dist.ents["assets"] ELSE Absent))
       ELSE UNCHANGED dist
    /\ pc' = Successor(pc)
    /\ UNCHANGED <<inputs, originHTML, posts, exitCode, history>>

\* lines 159-163
CnameStep ==
    /\ pc = "cname"
    /\ IF Exists(cname)
       THEN dist' = WriteFile(dist, "CNAME", cname)
       ELSE UNCHANGED dist
    /\ pc' = Successor(pc)
    /\ UNCHANGED <<inputs, originHTML, posts, exitCode, history>>

\* line 165: build() returns and the process ends
CompleteStep ==
    /\ pc = "complete"
    /\ pc' = Successor(pc)
    /\ exitCode' = "0"
    /\ UNCHANGED <<inputs, dist, originHTML, posts, history>>

-----------------------------------------------------------------------------
(* The inputs the model draws from *)

MaxBuilds == 2   \* how often the script is started in one behaviour
MaxFiles == 3    \* the longest listing of content/posts (SpecPosts)

Letter == <<"a", "b", "c", "d", "e">>
Digit == <<"1", "2", "3", "4", "5">>

Date0101 == <<"2", "0", "2", "4", "-", "0", "1", "-", "0", "1">>
Date0601 == <<"2", "0", "2", "4", "-", "0", "6", "-", "0", "1">>
Date06 == <<"2", "0", "2", "4", "-", "0", "6">>

Dates ==
    {<<>>, Date0101, Date0601, Date06, <<"a">>, <<"B">>, <<"a", "0">>, <<"A", "1">>}

Id(i) == <<"id", JNum(<<Digit[i]>>)>>

Post(i, d) == JObj(<< <<"date", JStr(d)>>, Id(i) >>)

FileKinds ==
    {[k |-> x, d |-> <<>>] : x \in {"txt", "bad", "null", "nodate", "numdate"}}
    \cup {[k |-> "date", d |-> d] : d \in Dates}

\* the i-th file of a listing, of the given kind
PostFile(i, kind) ==
    [name |-> <<Letter[i]>> \o (IF kind.k = "txt" THEN <<".", "t", "x", "t">>
                                ELSE DotJson),
     file |-> CASE kind.k = "bad" -> Malformed
                [] kind.k = "null" -> Holds(JNull)
                [] kind.k = "nodate" -> Holds(JObj(<<Id(i)>>))
                [] kind.k = "numdate" ->
                     Holds(JObj(<< <<"date", JNum(<<"2", "0", "2", "4">>)>>, Id(i) >>))
                [] kind.k = "txt" -> Holds(Post(i, Date0101))
                [] kind.k = "date" -> Holds(Post(i, kind.d))]

Listing(files) == [t |-> "dir", list |-> files]

Listings ==
    {Listing([i \in 1..n |-> PostFile(i, ks[i])]) :
        n \in 0..MaxFiles, ks \in [1..MaxFiles -> FileKinds]}

EntryText == <<"<h1>", "w", "s", "b", "i", "</h1>">>
RippleText == <<"<main>", ORIGIN_HTML, "</main>">>
CleanTwice == <<"<div>", ORIGIN_HTML, "</div>", ORIGIN_HTML>>
CleanPlain == <<"<div>", "</div>">>
BlogText ==
    <<"<script>", "P", "=", POSTS_JSON, ";", "U", "=", UNLINKED_JSON, ";",
      "A", "=", ABOUT_JSON, ";", "E", "=", "'", CONTACT_EMAIL, "'", ";",
      "</script>", POSTS_JSON>>

TemplateSets ==
    {[n \in {"entry.html", "ripple.html", "clean.html", "blog.html"} |->
        CASE n = "entry.html" -> e [] n = "ripple.html" -> r
          [] n = "clean.html" -> c [] n = "blog.html" -> b] :
        e \in {Absent, File(EntryText)},
        r \in {Absent, File(RippleText)},
        c \in {Absent, File(CleanTwice), File(CleanPlain)},
        b \in {Absent, File(BlogText)}}

Body(en, es) == JObj(<< <<"body", JObj(<< <<"en", JStr(en)>>, <<"es", JStr(es)>> >>)>> >>)

Origins ==
    {Absent, Malformed,
     Holds(Body(<<"<p>", "H", "i", "</p>">>, <<"<p>", "H", "o", "l", "a", "</p>">>)),
     Holds(Body(<<"$", "$", "5">>, <<"<b>", "$", "&", "</b>">>)),
     Holds(JObj(<<>>))}

Email(text) == Holds(JObj(<< <<"contact_email", JStr(text)>> >>))

\* what injectData reads: site.json, about.json, unlinked-comments.json, posts
DataSets ==
    {[site |-> Absent, about |-> Absent, unlinked |-> Absent, posts |-> Absent],
     [site |-> Email(<<"a", "@", "b", ".", "c", "o", "m">>),
      about |-> Holds(JObj(<< <<"en", JStr(<<"A">>)>>, <<"es", JStr(<<"B">>)>> >>)),
      unlinked |-> Holds(JArr(<<JStr(<<"c">>)>>)),
      posts |-> Listing(<<PostFile(1, [k |-> "date", d |-> Date0101]),
                          PostFile(2, [k |-> "date", d |-> Date0601])>>)],
     [site |-> Email(<<"a", "$", "$", "b">>),
      about |-> Malformed,
      unlinked |-> Malformed,
      posts |-> Listing(<<PostFile(1, [k |-> "bad", d |-> <<>>]),
                          PostFile(2, [k |-> "nodate", d |-> <<>>]),
                          PostFile(3, [k |-> "txt", d |-> <<>>])>>)],
     [site |-> Holds(JNull), about |-> Absent, unlinked |-> Absent,
      posts |-> Listing(<<>>)],
     [site |-> Malformed, about |-> Absent,
      unlinked |-> Holds(JArr(<<JStr(<<ABOUT_JSON>>)>>)),
      posts |-> Listing(<<PostFile(1, [k |-> "date", d |-> Date0601])>>)],
     [site |-> Absent, about |-> Absent, unlinked |-> Absent,
      posts |-> Listing(<<PostFile(1, [k |-> "numdate", d |-> <<>>]),
                          PostFile(2, [k |-> "numdate", d |-> <<>>])>>)]}

ContentOf(origin, data) ==
    [n \in {"origin.json", "site.json", "about.json", "unlinked-comments.json"} |->
        CASE n = "origin.json" -> origin
          [] n = "site.json" -> data.site
          [] n = "about.json" -> data.about
          [] n = "unlinked-comments.json" -> data.unlinked]

Css == File(<<"b", "o", "d", "y", "{", "}">>)
AssetTree ==
    Dir([n \in {"site.css", "img", "empty"} |->
           CASE n = "site.css" -> Css
             [] n = "img" -> Dir([m \in {"logo.svg"} |-> File(<<"<svg/>">>)])
             [] n = "empty" -> EmptyDir])

CnameFile == File(<<"e", "x", ".", "o", "r", "g">>)

\* what an earlier build, of other inputs, may have left in dist/
StaleDist ==
    Dir([n \in {"index.html", "old.html", "ripple.html", "assets"} |->
           CASE n = "assets" -> Dir([m \in {"old.css"} |-> Css])
             [] OTHER -> File(<<"o", "l", "d">>)])

-----------------------------------------------------------------------------
(* The script, started on a project directory *)

Fresh ==
    /\ pc = "cleanDir"
    /\ originHTML = Undefined
    /\ posts = Undefined
    /\ exitCode = "none"
    /\ builds = 1
    /\ startDist = dist
    /\ prevDone = FALSE
    /\ prevOut = Absent

Init ==
    /\ templates \in TemplateSets
    /\ \E o \in Origins, d \in DataSets :
         content = ContentOf(o, d) /\ postsDir = d.posts
    /\ assets \in {Absent, AssetTree}
    /\ cname \in {Absent, CnameFile}
    /\ dist \in {Absent, StaleDist}
    /\ Fresh

\* line 168 in a new process: the script is run again on the same inputs,
\* on the dist/ the last run left or on one something else has filled
Invoke ==
    /\ pc \in Terminal
    /\ builds < MaxBuilds
    /\ dist' \in {dist, StaleDist}
    /\ pc' = "cleanDir"
    /\ originHTML' = Undefined
    /\ posts' = Undefined
    /\ exitCode' = "none"
    /\ builds' = builds + 1
    /\ startDist' = dist'
    /\ prevDone' = (pc = "done")
    /\ prevOut' = dist
    /\ UNCHANGED inputs

Next ==
    \/ CleanStep
    \/ OriginStep
    \/ EntryStep
    \/ \E page \in OriginPages : OriginPage(page)
    \/ BlogStep
    \/ AssetsStep
    \/ CnameStep
    \/ CompleteStep
    \/ Invoke

Spec == Init /\ [][Next]_vars

-----------------------------------------------------------------------------
(* readPosts() on its own, for every listing of up to MaxFiles files *)

InitPosts ==
    /\ templates \in {[n \in {"entry.html", "ripple.html", "clean.html", "blog.html"}
                          |-> Absent]}
    /\ content = ContentOf(Absent, [site |-> Absent, about |-> Absent,
                                    unlinked |-> Absent])
    /\ postsDir \in {Absent} \cup Listings
    /\ assets = Absent
    /\ cname = Absent
    /\ dist = Absent
    /\ pc = "readPosts"
    /\ originHTML = Undefined
    /\ posts = Undefined
    /\ exitCode = "none"
    /\ builds = 1
    /\ startDist = Absent
    /\ prevDone = FALSE
    /\ prevOut = Absent

\* line 69: const posts = readPosts()
CallReadPosts ==
    /\ pc = "readPosts"
    /\ \E r \in readPosts :
         /\ posts' = r
         /\ IF r = Throw THEN Crash
            ELSE pc' = "returned" /\ UNCHANGED exitCode
    /\ UNCHANGED <<inputs, dist, originHTML, history>>

NextPosts == CallReadPosts

SpecPosts == InitPosts /\ [][NextPosts]_vars

-----------------------------------------------------------------------------
(* Vocabulary of the properties *)

Names(d) == IF Exists(d) THEN DOMAIN d.ents ELSE {}

\* the place of a statement in build(); 0 for a process that has ended early
Rank(step) ==
    IF \E k \in 1..Len(Steps) : Steps[k] = step
    THEN CHOOSE k \in 1..Len(Steps) : Steps[k] = step
    ELSE 0

\* this run has executed the statement step without the process ending in
\* it: the process is at a later statement, or it ended in a later one (the
\* only exception after the origin pages is raised by the blog page)
Passed(step) ==
    \/ Rank(pc) > Rank(step)
    \/ pc = "crash" /\ originHTML # Undefined /\ Rank(step) < Rank("blog")

\* text with the first occurrence of tok exchanged for repl, character for
\* character
SpliceFirst(text, tok, repl) ==
    LET i == IndexOf(text, tok) IN
    IF i = 0 THEN text
    ELSE SubSeq(text, 1, i - 1) \o repl \o SubSeq(text, i + 1, Len(text))

\* text with the first occurrence of each token exchanged for that token's
\* replacement, and nothing else changed
SpliceEach(text, toks, replOf) ==
    Concat([i \in 1..Len(text) |->
        IF text[i] \in toks /\ IndexOf(text, text[i]) = i
        THEN replOf[text[i]]
        ELSE <<text[i]>>])

\* UTF-16 code units, the order of the operators < and >= on strings
CodeUnit(c) ==
    CASE c = "-" -> 45
      [] c = "0" -> 48 [] c = "1" -> 49 [] c = "2" -> 50
      [] c = "4" -> 52 [] c = "6" -> 54
      [] c = "A" -> 65 [] c = "B" -> 66
      [] c = "a" -> 97 [] c = "b" -> 98

\* s >= that, as strings
CodeUnitGeq(s, that) ==
    CompareKeys([i \in 1..Len(s) |-> CodeUnit(s[i])],
                [i \in 1..Len(that) |-> CodeUnit(that[i])]) >= 0

\* the date a post is sorted by: a missing or falsy date counts as ""
DateKey(p) == ToStr(OrEmpty(Get(p, "date")))

IsoLike(s) == \A i \in 1..Len(s) : s[i] \in {"-", "0", "1", "2", "4", "6"}

Count(seq, v) == Cardinality({i \in 1..Len(seq) : seq[i] = v})

\* the values of the files of content/posts that are named *.json and parse
ParseableFiles ==
    IF ~Exists(postsDir) THEN <<>>
    ELSE LET ok(f) == endsWith(f.name, DotJson) /\ f.file.t = "json"
             good == SelectSeq(postsDir.list, ok)
         IN [i \in 1..Len(good) |-> good[i].file.v]

EntryMissing == ~Exists(templates["entry.html"])

-----------------------------------------------------------------------------
(* C1: without templates/entry.html the process ends with a non-zero exit   *)
(* code, no later statement of build() is reached, and dist/index.html does *)
(* not exist from the cleaning of dist/ on, whatever dist/ held before.     *)
C1_MissingEntryFails ==
    EntryMissing =>
        /\ pc \in {"cleanDir", "origin", "entry", "exit1", "crash"}
        /\ pc # "cleanDir" => "index.html" \notin Names(dist)
        /\ pc \in Terminal => exitCode = "1"

C1_Witness ==
    /\ EntryMissing
    /\ pc = "exit1"
    /\ exitCode = "1"
    /\ "index.html" \in Names(startDist)
    /\ "index.html" \notin Names(dist)

(* C2: with templates/entry.html present, every run ends with exit code 0,  *)
(* whatever the other inputs are.                                           *)
C2_OnlyMissingEntryIsFatal ==
    (~EntryMissing /\ pc \in Terminal) => exitCode = "0"

(* C3, as stated: the collection readPosts() returns is in descending order *)
(* of date under the comparison of strings by code units (>=), a missing    *)
(* date counting as "".                                                     *)
C3_SortedByCodeUnits ==
    posts.t = "arr" =>
        \A i, j \in 1..Len(posts.v) :
            i < j => CodeUnitGeq(DateKey(posts.v[i]), DateKey(posts.v[j]))

(* C3, amended: the collection readPosts() returns is in descending order   *)
(* of date under the order of String.prototype.localeCompare, a missing or  *)
(* falsy date counting as ""; for two dates written with digits and hyphens *)
(* only, that is the order of their code units.                             *)
C3_SortedByLocaleCompare ==
    posts.t = "arr" =>
        \A i, j \in 1..Len(posts.v) :
            i < j =>
                LET a == DateKey(posts.v[i])
                    b == DateKey(posts.v[j])
                IN /\ localeCompare(a, b) >= 0
                   /\ (IsoLike(a) /\ IsoLike(b)) => CodeUnitGeq(a, b)

C3_Witness ==
    /\ pc = "returned"
    /\ postsDir = Listing(<<PostFile(1, [k |-> "date", d |-> Date0101]),
                            PostFile(2, [k |-> "nodate", d |-> <<>>]),
                            PostFile(3, [k |-> "date", d |-> Date0601])>>)
    /\ posts = JArr(<<Post(3, Date0601), Post(1, Date0101), JObj(<<Id(2)>>)>>)

(* C4: once readPosts() has been called on a directory whose parseable     *)
(* *.json files hold JSON objects, it has returned a collection that holds  *)
(* each of these objects exactly once and nothing else.                     *)
C4_ExactlyTheParseablePosts ==
    (/\ posts # Undefined
     /\ \A i \in 1..Len(ParseableFiles) : ParseableFiles[i].t = "obj") =>
        /\ posts.t = "arr"
        /\ Len(posts.v) = Len(ParseableFiles)
        /\ \A i \in 1..Len(ParseableFiles) :
              Count(posts.v, ParseableFiles[i]) = Count(ParseableFiles, ParseableFiles[i])

(* C5: with content/origin.json absent or malformed, buildOriginHTML()      *)
(* yields null without raising, and each origin page whose template exists  *)
(* is written to dist/ with exactly the content of its template.            *)
C5_NoOriginLeavesTemplates ==
    content["origin.json"].t \in {"absent", "malformed"} =>
        /\ originHTML \in {Undefined, JNull}
        /\ pc = "crash" => originHTML = JNull
        /\ \A page \in OriginPages :
              (Exists(templates[page]) /\ Passed(page)) =>
                  /\ page \in Names(dist)
                  /\ dist.ents[page] = templates[page]

C5_Witness ==
    /\ content["origin.json"].t = "malformed"
    /\ pc = "done"
    /\ {"ripple.html", "clean.html"} \subseteq Names(dist)
    /\ dist.ents["ripple.html"] = File(RippleText)
    /\ dist.ents["clean.html"] = File(CleanTwice)

(* C6: the blog page written is the blog template with the first occurrence *)
(* of each of the four tokens exchanged for the JSON text of the posts, of   *)
(* the unlinked list, of the about object and for the contact email, these   *)
(* texts standing in the page character for character.                      *)
C6_BlogTokensReplacedLiterally ==
    (Exists(templates["blog.html"]) /\ Passed("blog")) =>
        dist.ents["blog.html"].data =
            SpliceEach(templates["blog.html"].data,
                {POSTS_JSON, UNLINKED_JSON, ABOUT_JSON, CONTACT_EMAIL},
                [tok \in {POSTS_JSON, UNLINKED_JSON, ABOUT_JSON, CONTACT_EMAIL} |->
                    CASE tok = POSTS_JSON -> JSONstringify(posts)
                      [] tok = UNLINKED_JSON ->
                           JSONstringify(readJSON(content["unlinked-comments.json"],
                                                  DefaultUnlinked))
                      [] tok = ABOUT_JSON ->
                           JSONstringify(readJSON(content["about.json"], DefaultAbout))
                      [] tok = CONTACT_EMAIL ->
                           ToStr(OrEmpty(Get(readJSON(content["site.json"], DefaultSite),
                                             "contact_email")))])

(* C7: a run that completes after a run that completed leaves dist/ exactly *)
(* as the earlier run left it, whether it started on that dist/ or on a     *)
(* dist/ filled with something else.                                        *)
C7_SameOutputAgain ==
    (pc = "done" /\ prevDone) => dist = prevOut

C7_Witness ==
    /\ pc = "done"
    /\ prevDone
    /\ startDist = StaleDist
    /\ prevOut # StaleDist
    /\ dist = prevOut
    /\ "blog.html" \in Names(dist)

(* C8: with body.en and body.es in content/origin.json, each origin page    *)
(* written is its template with the first occurrence of the placeholder     *)
(* exchanged for the two-column fragment holding both bodies character for  *)
(* character.                                                               *)
C8_OriginInjectedVerbatim ==
    LET origin == content["origin.json"] IN
    (/\ origin.t = "json"
     /\ Get(origin.v, "body").t = "obj"
     /\ Get(Get(origin.v, "body"), "en").t = "str"
     /\ Get(Get(origin.v, "body"), "es").t = "str") =>
        \A page \in OriginPages :
            (Exists(templates[page]) /\ Passed(page)) =>
                dist.ents[page].data =
                    SpliceFirst(templates[page].data, ORIGIN_HTML,
                        OriginFragment(Get(Get(origin.v, "body"), "en").v,
                                       Get(Get(origin.v, "body"), "es").v))

(* C9: when a run completes, dist/ holds index.html, a copy of the entry     *)
(* template; each of ripple.html, clean.html and blog.html exactly when its  *)
(* own template exists; assets, equal to the assets tree, exactly when that  *)
(* exists; CNAME, a copy, exactly when that exists; and nothing else.        *)
C9_OutputTree ==
    pc = "done" =>
        /\ Names(dist) =
              {"index.html"}
              \cup {n \in {"ripple.html", "clean.html", "blog.html"} : Exists(templates[n])}
              \cup (IF Exists(assets) THEN {"assets"} ELSE {})
              \cup (IF Exists(cname) THEN {"CNAME"} ELSE {})
        /\ dist.ents["index.html"] = templates["entry.html"]
        /\ Exists(assets) => dist.ents["assets"] = assets
        /\ Exists(cname) => dist.ents["CNAME"] = cname

C9_Witness ==
    /\ pc = "done"
    /\ startDist = StaleDist
    /\ Names(dist) = {"index.html", "clean.html", "assets"}
    /\ dist.ents["assets"] = AssetTree

\* the place of an output in the order of build()'s statements; anything
\* build() does not write comes last
OutRank(n) ==
    CASE n = "index.html" -> 1 [] n = "ripple.html" -> 2
      [] n = "clean.html" -> 3 [] n = "blog.html" -> 4
      [] n = "assets" -> 5 [] n = "CNAME" -> 6
      [] OTHER -> 7

\* the entries of dist/ a step creates or changes
Written ==
    {n \in Names(dist') : n \notin Names(dist) \/ dist'.ents[n] # dist.ents[n]}

(* C10: within a run, the first step empties dist/; every later step that   *)
(* writes an output finds in dist/ only outputs of earlier statements, and  *)
(* index.html among them; and without the entry template nothing is ever    *)
(* written to the emptied dist/.                                            *)
C10_StepOrder ==
    /\ [][builds' = builds =>
            /\ pc = "cleanDir" => dist' = EmptyDir
            /\ pc # "cleanDir" =>
                 \A f \in Written :
                    /\ \A g \in Names(dist) : OutRank(g) < OutRank(f)
                    /\ f # "index.html" => "index.html" \in Names(dist)]_vars
    /\ []((EntryMissing /\ pc # "cleanDir") => Names(dist) = {})

C10_Witness ==
    /\ pc = "done"
    /\ startDist = StaleDist
    /\ Names(dist) = {"index.html", "ripple.html", "clean.html", "blog.html",
                      "assets", "CNAME"}

=============================================================================
